---------------------------- MODULE Spec2Model ----------------------------
(***************************************************************************)
(* The voice assistant of src/main.py: the main loop (run), the transcription *)
(* port (listen, take_text_input, speak), the dispatcher (dispatch), the    *)
(* Intent Catalog (COMMAND_TABLE, EXIT_KEYWORDS) and the handler set with   *)
(* the three persisted stores (config.json, notes.txt, todo.json).          *)
(*                                                                         *)
(* Text is a sequence of one-character strings, so that Python's substring  *)
(* test, re.sub, split, strip, title and replace are computed character by  *)
(* character as the code computes them.                                     *)
(***************************************************************************)
EXTENDS Integers, Sequences, FiniteSets, TLC

(***************************************************************************)
(* Python string operations used by the program.                            *)
(***************************************************************************)

\* str.startswith at offset 0: kw is a prefix of s.
StartsWith(kw, s) ==
  /\ Len(kw) <= Len(s)
  /\ SubSeq(s, 1, Len(kw)) = kw

\* Python `kw in s` for strings: kw occurs as a contiguous substring of s.
Contains(kw, s) ==
  \E i \in 0..(Len(s) - Len(kw)) : SubSeq(s, i + 1, i + Len(kw)) = kw

\* any(kw in query for kw in keywords)
AnyIn(keywords, s) ==
  \E i \in 1..Len(keywords) : Contains(keywords[i], s)

RECURSIVE lstrip(_)
lstrip(s) ==
  IF s # <<>> /\ Head(s) = " " THEN lstrip(Tail(s)) ELSE s

RECURSIVE rstrip(_)
rstrip(s) ==
  IF s # <<>> /\ s[Len(s)] = " " THEN rstrip(SubSeq(s, 1, Len(s) - 1)) ELSE s

\* str.strip(): leading and trailing whitespace removed.
strip(s) == rstrip(lstrip(s))

\* len(s.split()): the number of whitespace-delimited tokens.
SplitLen(s) ==
  Cardinality({i \in 1..Len(s) : s[i] # " " /\ (i = 1 \/ s[i - 1] = " ")})

\* The first alternative (in pattern order) that matches at the head of s,
\* as a regex alternation (a|b|c) does; <<>> when none matches.
RECURSIVE FirstAlt(_, _)
FirstAlt(alts, s) ==
  IF alts = <<>> THEN <<>>
  ELSE IF StartsWith(Head(alts), s) THEN Head(alts)
  ELSE FirstAlt(Tail(alts), s)

\* re.sub(r"(a|b|c)", "", s): every leftmost non-overlapping match removed.
RECURSIVE re_sub(_, _)
re_sub(alts, s) ==
  IF s = <<>> THEN <<>>
  ELSE LET m == FirstAlt(alts, s)
       IN IF m # <<>> THEN re_sub(alts, SubSeq(s, Len(m) + 1, Len(s)))
          ELSE <<Head(s)>> \o re_sub(alts, Tail(s))

\* str.replace(' ', '+')
RECURSIVE replace_space_plus(_)
replace_space_plus(s) ==
  IF s = <<>> THEN <<>>
  ELSE <<IF Head(s) = " " THEN "+" ELSE Head(s)>> \o replace_space_plus(Tail(s))

DIGITS == <<"0", "1", "2", "3", "4", "5", "6", "7", "8", "9">>

IsDigit(c) == \E d \in 1..10 : DIGITS[d] = c

DigitValue(c) == (CHOOSE d \in 1..10 : DIGITS[d] = c) - 1

\* The maximal run of digits at the head of s.
RECURSIVE DigitRun(_)
DigitRun(s) ==
  IF s # <<>> /\ IsDigit(Head(s)) THEN <<Head(s)>> \o DigitRun(Tail(s)) ELSE <<>>

\* re.search(r"\d+", s).group(): the leftmost maximal digit run, <<>> when
\* the search returns None.
RECURSIVE re_search_digits(_)
re_search_digits(s) ==
  IF s = <<>> THEN <<>>
  ELSE IF IsDigit(Head(s)) THEN DigitRun(s)
  ELSE re_search_digits(Tail(s))

\* int(digits) for a non-empty run of decimal digits.
RECURSIVE int(_)
int(ds) ==
  IF ds = <<>> THEN 0
  ELSE 10 * int(SubSeq(ds, 1, Len(ds) - 1)) + DigitValue(ds[Len(ds)])

LOWERCASE ==
  <<"a","b","c","d","e","f","g","h","i","j","k","l","m",
    "n","o","p","q","r","s","t","u","v","w","x","y","z">>

UPPERCASE ==
  <<"A","B","C","D","E","F","G","H","I","J","K","L","M",
    "N","O","P","Q","R","S","T","U","V","W","X","Y","Z">>

IsLower(c) == \E k \in 1..26 : LOWERCASE[k] = c

IsUpper(c) == \E k \in 1..26 : UPPERCASE[k] = c

ToUpper(c) ==
  IF IsLower(c) THEN UPPERCASE[CHOOSE k \in 1..26 : LOWERCASE[k] = c] ELSE c

ToLower(c) ==
  IF IsUpper(c) THEN LOWERCASE[CHOOSE k \in 1..26 : UPPERCASE[k] = c] ELSE c

\* str.lower()
RECURSIVE lower(_)
lower(s) ==
  IF s = <<>> THEN <<>> ELSE <<ToLower(Head(s))>> \o lower(Tail(s))

IsLetter(c) == IsLower(c) \/ IsUpper(c)

\* The rest of str.title(): afterLetter says whether the previous character
\* was a letter.
RECURSIVE TitleFrom(_, _)
TitleFrom(s, afterLetter) ==
  IF s = <<>> THEN <<>>
  ELSE <<IF afterLetter THEN ToLower(Head(s)) ELSE ToUpper(Head(s))>>
       \o TitleFrom(Tail(s), IsLetter(Head(s)))

\* str.title(): a letter that follows a non-letter (or starts the text) is
\* upper-cased, every other letter lower-cased.
title(s) == TitleFrom(s, FALSE)

(***************************************************************************)
(* The Intent Catalog, the Exit Keyword set and the handlers' word lists.   *)
(***************************************************************************)

COMMAND_TABLE ==
  <<
    [handler |-> "cmd_time", keywords |-> <<
        <<"w","h","a","t"," ","t","i","m","e">>,  \* what time
        <<"c","u","r","r","e","n","t"," ","t","i","m","e">>,  \* current time
        <<"t","i","m","e"," ","i","s"," ","i","t">>   \* time is it
    >>],
    [handler |-> "cmd_date", keywords |-> <<
        <<"w","h","a","t"," ","d","a","t","e">>,  \* what date
        <<"t","o","d","a","y","'","s"," ","d","a","t","e">>,  \* today's date
        <<"w","h","a","t"," ","d","a","y">>   \* what day
    >>],
    [handler |-> "cmd_open_site", keywords |-> <<
        <<"o","p","e","n"," ","g","o","o","g","l","e">>,  \* open google
        <<"o","p","e","n"," ","y","o","u","t","u","b","e">>,  \* open youtube
        <<"o","p","e","n"," ","g","i","t","h","u","b">>,  \* open github
        <<"o","p","e","n"," ","g","m","a","i","l">>,  \* open gmail
        <<"o","p","e","n"," ","m","a","p","s">>,  \* open maps
        <<"o","p","e","n"," ","r","e","d","d","i","t">>,  \* open reddit
        <<"o","p","e","n"," ","t","w","i","t","t","e","r">>,  \* open twitter
        <<"o","p","e","n"," ","l","i","n","k","e","d","i","n">>,  \* open linkedin
        <<"o","p","e","n"," ","s","t","a","c","k","o","v","e","r","f","l","o","w">>   \* open stackoverflow
    >>],
    [handler |-> "cmd_search_google", keywords |-> <<
        <<"s","e","a","r","c","h"," ","f","o","r">>,  \* search for
        <<"g","o","o","g","l","e"," ","f","o","r">>,  \* google for
        <<"s","e","a","r","c","h"," ","g","o","o","g","l","e">>   \* search google
    >>],
    [handler |-> "cmd_search_youtube", keywords |-> <<
        <<"y","o","u","t","u","b","e">>,  \* youtube
        <<"p","l","a","y"," ","o","n"," ","y","o","u","t","u","b","e">>,  \* play on youtube
        <<"s","e","a","r","c","h"," ","y","o","u","t","u","b","e">>   \* search youtube
    >>],
    [handler |-> "cmd_wikipedia", keywords |-> <<
        <<"w","i","k","i","p","e","d","i","a">>,  \* wikipedia
        <<"w","i","k","i">>,  \* wiki
        <<"w","h","o"," ","i","s">>,  \* who is
        <<"t","e","l","l"," ","m","e"," ","a","b","o","u","t">>,  \* tell me about
        <<"w","h","a","t"," ","i","s">>,  \* what is
        <<"e","x","p","l","a","i","n">>   \* explain
    >>],
    [handler |-> "cmd_write_note", keywords |-> <<
        <<"w","r","i","t","e"," ","a"," ","n","o","t","e">>,  \* write a note
        <<"t","a","k","e"," ","a"," ","n","o","t","e">>,  \* take a note
        <<"m","a","k","e"," ","a"," ","n","o","t","e">>,  \* make a note
        <<"n","o","t","e"," ","t","h","a","t">>,  \* note that
        <<"n","o","t","e"," ","d","o","w","n">>   \* note down
    >>],
    [handler |-> "cmd_read_notes", keywords |-> <<
        <<"r","e","a","d"," ","m","y"," ","n","o","t","e","s">>,  \* read my notes
        <<"s","h","o","w"," ","n","o","t","e","s">>,  \* show notes
        <<"m","y"," ","n","o","t","e","s">>   \* my notes
    >>],
    [handler |-> "cmd_add_todo", keywords |-> <<
        <<"a","d","d"," ","t","a","s","k">>,  \* add task
        <<"a","d","d"," ","t","o"," ","d","o">>,  \* add to do
        <<"r","e","m","i","n","d"," ","m","e">>,  \* remind me
        <<"a","d","d"," ","r","e","m","i","n","d","e","r">>,  \* add reminder
        <<"n","e","w"," ","t","a","s","k">>   \* new task
    >>],
    [handler |-> "cmd_read_todos", keywords |-> <<
        <<"r","e","a","d"," ","m","y"," ","t","a","s","k","s">>,  \* read my tasks
        <<"m","y"," ","t","a","s","k","s">>,  \* my tasks
        <<"s","h","o","w"," ","t","a","s","k","s">>,  \* show tasks
        <<"t","o"," ","d","o"," ","l","i","s","t">>,  \* to do list
        <<"t","o","d","o"," ","l","i","s","t">>   \* todo list
    >>],
    [handler |-> "cmd_complete_todo", keywords |-> <<
        <<"c","o","m","p","l","e","t","e"," ","t","a","s","k">>,  \* complete task
        <<"m","a","r","k"," ","d","o","n","e">>,  \* mark done
        <<"f","i","n","i","s","h","e","d"," ","t","a","s","k">>   \* finished task
    >>],
    [handler |-> "cmd_shutdown", keywords |-> <<
        <<"s","h","u","t"," ","d","o","w","n">>,  \* shut down
        <<"s","h","u","t","d","o","w","n">>,  \* shutdown
        <<"p","o","w","e","r"," ","o","f","f">>   \* power off
    >>],
    [handler |-> "cmd_restart", keywords |-> <<
        <<"r","e","s","t","a","r","t">>,  \* restart
        <<"r","e","b","o","o","t">>   \* reboot
    >>],
    [handler |-> "cmd_lock", keywords |-> <<
        <<"l","o","c","k"," ","s","c","r","e","e","n">>,  \* lock screen
        <<"l","o","c","k"," ","c","o","m","p","u","t","e","r">>,  \* lock computer
        <<"l","o","c","k"," ","t","h","e"," ","s","c","r","e","e","n">>   \* lock the screen
    >>],
    [handler |-> "cmd_volume_up", keywords |-> <<
        <<"v","o","l","u","m","e"," ","u","p">>,  \* volume up
        <<"i","n","c","r","e","a","s","e"," ","v","o","l","u","m","e">>,  \* increase volume
        <<"l","o","u","d","e","r">>   \* louder
    >>],
    [handler |-> "cmd_volume_down", keywords |-> <<
        <<"v","o","l","u","m","e"," ","d","o","w","n">>,  \* volume down
        <<"d","e","c","r","e","a","s","e"," ","v","o","l","u","m","e">>,  \* decrease volume
        <<"q","u","i","e","t","e","r">>   \* quieter
    >>],
    [handler |-> "cmd_open_app", keywords |-> <<
        <<"o","p","e","n"," ","c","a","l","c","u","l","a","t","o","r">>,  \* open calculator
        <<"o","p","e","n"," ","n","o","t","e","p","a","d">>,  \* open notepad
        <<"o","p","e","n"," ","p","a","i","n","t">>,  \* open paint
        <<"o","p","e","n"," ","f","i","l","e"," ","m","a","n","a","g","e","r">>   \* open file manager
    >>],
    [handler |-> "cmd_joke", keywords |-> <<
        <<"t","e","l","l"," ","m","e"," ","a"," ","j","o","k","e">>,  \* tell me a joke
        <<"j","o","k","e">>,  \* joke
        <<"m","a","k","e"," ","m","e"," ","l","a","u","g","h">>   \* make me laugh
    >>],
    [handler |-> "cmd_how_are_you", keywords |-> <<
        <<"h","o","w"," ","a","r","e"," ","y","o","u">>,  \* how are you
        <<"h","o","w"," ","d","o"," ","y","o","u"," ","d","o">>   \* how do you do
    >>],
    [handler |-> "cmd_name", keywords |-> <<
        <<"y","o","u","r"," ","n","a","m","e">>,  \* your name
        <<"w","h","o"," ","a","r","e"," ","y","o","u">>,  \* who are you
        <<"w","h","a","t"," ","a","r","e"," ","y","o","u"," ","c","a","l","l","e","d">>   \* what are you called
    >>],
    [handler |-> "cmd_creator", keywords |-> <<
        <<"w","h","o"," ","m","a","d","e"," ","y","o","u">>,  \* who made you
        <<"w","h","o"," ","c","r","e","a","t","e","d"," ","y","o","u">>,  \* who created you
        <<"y","o","u","r"," ","c","r","e","a","t","o","r">>   \* your creator
    >>],
    [handler |-> "cmd_change_assistant_name", keywords |-> <<
        <<"c","h","a","n","g","e"," ","y","o","u","r"," ","n","a","m","e">>,  \* change your name
        <<"r","e","n","a","m","e"," ","y","o","u","r","s","e","l","f">>   \* rename yourself
    >>],
    [handler |-> "cmd_change_user_name", keywords |-> <<
        <<"c","h","a","n","g","e"," ","m","y"," ","n","a","m","e">>,  \* change my name
        <<"m","y"," ","n","a","m","e"," ","i","s">>   \* my name is
    >>],
    [handler |-> "cmd_help", keywords |-> <<
        <<"h","e","l","p">>,  \* help
        <<"w","h","a","t"," ","c","a","n"," ","y","o","u"," ","d","o">>,  \* what can you do
        <<"c","o","m","m","a","n","d","s">>,  \* commands
        <<"f","e","a","t","u","r","e","s">>   \* features
    >>]
  >>

EXIT_KEYWORDS ==
  <<
    <<"e","x","i","t">>,  \* exit
    <<"q","u","i","t">>,  \* quit
    <<"g","o","o","d","b","y","e">>,  \* goodbye
    <<"b","y","e">>,  \* bye
    <<"s","t","o","p">>,  \* stop
    <<"s","h","u","t"," ","u","p">>   \* shut up
  >>

SITES ==
  <<
    <<"g","o","o","g","l","e">>,  \* google
    <<"y","o","u","t","u","b","e">>,  \* youtube
    <<"g","i","t","h","u","b">>,  \* github
    <<"g","m","a","i","l">>,  \* gmail
    <<"m","a","p","s">>,  \* maps
    <<"l","i","n","k","e","d","i","n">>,  \* linkedin
    <<"t","w","i","t","t","e","r">>,  \* twitter
    <<"r","e","d","d","i","t">>,  \* reddit
    <<"s","t","a","c","k","o","v","e","r","f","l","o","w">>   \* stackoverflow
  >>

APP_COMMANDS ==
  <<
    <<"c","a","l","c","u","l","a","t","o","r">>,  \* calculator
    <<"n","o","t","e","p","a","d">>,  \* notepad
    <<"p","a","i","n","t">>,  \* paint
    <<"f","i","l","e"," ","m","a","n","a","g","e","r">>   \* file manager
  >>

RE_search_google ==
  <<
    <<"s","e","a","r","c","h">>,  \* search
    <<"g","o","o","g","l","e">>,  \* google
    <<"f","o","r">>,  \* for
    <<"o","n">>   \* on
  >>

RE_search_youtube ==
  <<
    <<"y","o","u","t","u","b","e">>,  \* youtube
    <<"s","e","a","r","c","h">>,  \* search
    <<"p","l","a","y">>,  \* play
    <<"v","i","d","e","o">>,  \* video
    <<"f","o","r">>   \* for
  >>

RE_wikipedia ==
  <<
    <<"w","i","k","i","p","e","d","i","a">>,  \* wikipedia
    <<"w","i","k","i">>,  \* wiki
    <<"w","h","o"," ","i","s">>,  \* who is
    <<"w","h","a","t"," ","i","s">>,  \* what is
    <<"t","e","l","l"," ","m","e"," ","a","b","o","u","t">>,  \* tell me about
    <<"s","e","a","r","c","h">>   \* search
  >>

RE_write_note ==
  <<
    <<"w","r","i","t","e">>,  \* write
    <<"t","a","k","e">>,  \* take
    <<"m","a","k","e">>,  \* make
    <<"a">>,  \* a
    <<"n","o","t","e">>,  \* note
    <<"s","a","y","i","n","g">>,  \* saying
    <<"t","h","a","t">>   \* that
  >>

RE_add_todo ==
  <<
    <<"a","d","d">>,  \* add
    <<"t","o"," ","d","o">>,  \* to do
    <<"t","o","d","o">>,  \* todo
    <<"t","a","s","k">>,  \* task
    <<"r","e","m","i","n","d","e","r">>,  \* reminder
    <<"r","e","m","i","n","d"," ","m","e"," ","t","o">>   \* remind me to
  >>

\* HELP_TEXT: the categories and the example commands under each.
HELP_TEXT ==
  <<
    [category |-> "Time and Date", examples |-> <<
       <<"w","h","a","t"," ","t","i","m","e"," ","i","s"," ","i","t">>,  \* what time is it
       <<"w","h","a","t","'","s"," ","t","o","d","a","y","'","s"," ","d","a","t","e">>  \* what's today's date
     >>],
    [category |-> "Web", examples |-> <<
       <<"o","p","e","n"," ","G","o","o","g","l","e">>,  \* open Google
       <<"s","e","a","r","c","h"," ","f","o","r"," ","P","y","t","h","o","n"," ","t","u","t","o","r","i","a","l","s">>,  \* search for Python tutorials
       <<"p","l","a","y"," ","m","u","s","i","c"," ","o","n"," ","Y","o","u","T","u","b","e">>  \* play music on YouTube
     >>],
    [category |-> "Knowledge", examples |-> <<
       <<"w","i","k","i","p","e","d","i","a"," ","A","l","b","e","r","t"," ","E","i","n","s","t","e","i","n">>,  \* wikipedia Albert Einstein
       <<"w","h","o"," ","i","s"," ","E","l","o","n"," ","M","u","s","k">>  \* who is Elon Musk
     >>],
    [category |-> "Notes", examples |-> <<
       <<"w","r","i","t","e"," ","a"," ","n","o","t","e">>,  \* write a note
       <<"r","e","a","d"," ","m","y"," ","n","o","t","e","s">>  \* read my notes
     >>],
    [category |-> "To-Do", examples |-> <<
       <<"a","d","d"," ","t","a","s","k"," ","b","u","y"," ","g","r","o","c","e","r","i","e","s">>,  \* add task buy groceries
       <<"r","e","a","d"," ","m","y"," ","t","a","s","k","s">>,  \* read my tasks
       <<"c","o","m","p","l","e","t","e"," ","t","a","s","k">>  \* complete task
     >>],
    [category |-> "System", examples |-> <<
       <<"s","h","u","t","d","o","w","n">>,  \* shutdown
       <<"r","e","s","t","a","r","t">>,  \* restart
       <<"l","o","c","k"," ","s","c","r","e","e","n">>,  \* lock screen
       <<"v","o","l","u","m","e"," ","u","p">>,  \* volume up
       <<"v","o","l","u","m","e"," ","d","o","w","n">>  \* volume down
     >>],
    [category |-> "Apps", examples |-> <<
       <<"o","p","e","n"," ","c","a","l","c","u","l","a","t","o","r">>,  \* open calculator
       <<"o","p","e","n"," ","n","o","t","e","p","a","d">>  \* open notepad
     >>],
    [category |-> "Fun", examples |-> <<
       <<"t","e","l","l"," ","m","e"," ","a"," ","j","o","k","e">>,  \* tell me a joke
       <<"h","o","w"," ","a","r","e"," ","y","o","u">>  \* how are you
     >>],
    [category |-> "Settings", examples |-> <<
       <<"c","h","a","n","g","e"," ","n","a","m","e">>,  \* change name
       <<"c","h","a","n","g","e"," ","m","y"," ","n","a","m","e">>  \* change my name
     >>],
    [category |-> "Exit", examples |-> <<
       <<"e","x","i","t">>,  \* exit
       <<"q","u","i","t">>,  \* quit
       <<"g","o","o","d","b","y","e">>  \* goodbye
     >>]
  >>

\* The handlers under each heading of COMMAND_TABLE, by the category of
\* HELP_TEXT that names the heading.
CATEGORY_HANDLERS ==
  [c \in {HELP_TEXT[n].category : n \in 1..Len(HELP_TEXT)} |->
     CASE c = "Time and Date" -> {"cmd_time", "cmd_date"}
       [] c = "Web" -> {"cmd_open_site", "cmd_search_google", "cmd_search_youtube"}
       [] c = "Knowledge" -> {"cmd_wikipedia"}
       [] c = "Notes" -> {"cmd_write_note", "cmd_read_notes"}
       [] c = "To-Do" -> {"cmd_add_todo", "cmd_read_todos", "cmd_complete_todo"}
       [] c = "System" -> {"cmd_shutdown", "cmd_restart", "cmd_lock",
                           "cmd_volume_up", "cmd_volume_down"}
       [] c = "Apps" -> {"cmd_open_app"}
       [] c = "Fun" -> {"cmd_joke", "cmd_how_are_you", "cmd_name", "cmd_creator"}
       [] c = "Settings" -> {"cmd_change_assistant_name", "cmd_change_user_name"}
       [] c = "Exit" -> {}]

(***************************************************************************)
(* Bounds of the model and the environment's inputs.                        *)
(***************************************************************************)

\* The most tasks todo.json holds in the model.
MaxTasks == 3

\* The most tasks and notes, together, that todo.json and notes.txt hold in
\* a session of every kind of command.
MaxSessionItems == 1

\* The most notes notes.txt holds in a session that only keeps notes: more
\* than the five that cmd_read_notes reads out.
MaxNotes == 6

\* The number of keys, the first of KEYS, that the documents found in
\* data/config.json at start-up vary in.
MaxDocKeys == 3

\* What the user says or types at the main loop's prompt, before listen or
\* take_text_input normalises it (lower-cased, stripped).
Utterances ==
  {
    <<>>,  \* ''
    <<"e","x","i","t">>,  \* 'exit'
    <<"G","o","o","d","b","y","e">>,  \* 'Goodbye'
    <<"s","t","o","p"," ","t","h","e"," ","r","e","s","t","a","r","t">>,  \* 'stop the restart'
    <<"e","x","i","t"," ","h","e","l","p">>,  \* 'exit help'
    <<" ","q","u","i","t"," ">>,  \* ' quit '
    <<"w","h","a","t"," ","t","i","m","e"," ","i","s"," ","i","t">>,  \* 'what time is it'
    <<"w","h","a","t","'","s"," ","t","o","d","a","y","'","s"," ","d","a","t","e">>,  \* "what's today's date"
    <<"o","p","e","n"," ","G","o","o","g","l","e">>,  \* 'open Google'
    <<"o","p","e","n"," ","y","o","u","t","u","b","e">>,  \* 'open youtube'
    <<"s","e","a","r","c","h"," ","f","o","r"," ","c","a","t","s">>,  \* 'search for cats'
    <<"s","e","a","r","c","h"," ","f","o","r">>,  \* 'search for'
    <<"p","l","a","y"," ","m","u","s","i","c"," ","o","n"," ","y","o","u","t","u","b","e">>,  \* 'play music on youtube'
    <<"y","o","u","t","u","b","e">>,  \* 'youtube'
    <<"w","h","o"," ","i","s"," ","a","d","a">>,  \* 'who is ada'
    <<"w","i","k","i","p","e","d","i","a">>,  \* 'wikipedia'
    <<"e","x","p","l","a","i","n">>,  \* 'explain'
    <<"w","r","i","t","e"," ","a"," ","n","o","t","e">>,  \* 'write a note'
    <<"n","o","t","e"," ","t","h","a","t"," ","b","u","y"," ","m","i","l","k">>,  \* 'note that buy milk'
    <<"r","e","a","d"," ","m","y"," ","n","o","t","e","s">>,  \* 'read my notes'
    <<"a","d","d"," ","t","a","s","k"," ","b","u","y"," ","m","i","l","k">>,  \* 'add task buy milk'
    <<"a","d","d"," ","t","a","s","k">>,  \* 'add task'
    <<"r","e","a","d"," ","m","y"," ","t","a","s","k","s">>,  \* 'read my tasks'
    <<"c","o","m","p","l","e","t","e"," ","t","a","s","k">>,  \* 'complete task'
    <<"s","h","u","t","d","o","w","n">>,  \* 'shutdown'
    <<"r","e","s","t","a","r","t">>,  \* 'restart'
    <<"l","o","c","k"," ","s","c","r","e","e","n">>,  \* 'lock screen'
    <<"v","o","l","u","m","e"," ","u","p">>,  \* 'volume up'
    <<"v","o","l","u","m","e"," ","d","o","w","n">>,  \* 'volume down'
    <<"o","p","e","n"," ","c","a","l","c","u","l","a","t","o","r">>,  \* 'open calculator'
    <<"o","p","e","n"," ","p","a","i","n","t"," ","s","h","o","p">>,  \* 'open paint shop'
    <<"t","e","l","l"," ","m","e"," ","a"," ","j","o","k","e">>,  \* 'tell me a joke'
    <<"h","o","w"," ","a","r","e"," ","y","o","u">>,  \* 'how are you'
    <<"w","h","o"," ","a","r","e"," ","y","o","u">>,  \* 'who are you'
    <<"w","h","o"," ","m","a","d","e"," ","y","o","u">>,  \* 'who made you'
    <<"r","e","n","a","m","e"," ","y","o","u","r","s","e","l","f">>,  \* 'rename yourself'
    <<"c","h","a","n","g","e"," ","y","o","u","r"," ","n","a","m","e">>,  \* 'change your name'
    <<"c","h","a","n","g","e"," ","m","y"," ","n","a","m","e">>,  \* 'change my name'
    <<"h","e","l","p">>,  \* 'help'
    <<"j","o","k","e"," ","a","b","o","u","t"," ","m","y"," ","n","o","t","e","s">>,  \* 'joke about my notes'
    <<"h","e","l","p"," ","m","e"," ","a","d","d"," ","t","a","s","k">>,  \* 'help me add task'
    <<"b","a","n","a","n","a">>,  \* 'banana'
    <<"h","e","l","l","o"," ","t","h","e","r","e">>,  \* 'hello there'
    <<"s","i","n","g"," ","m","e"," ","a"," ","s","o","n","g">>,  \* 'sing me a song'
    <<"s","e","a","r","c","h"," ","t","h","e"," ","w","e","b">>,  \* 'search the web'
    <<"s","e","a","r","c","h"," ","s","e","a","r","c","h"," ","s","e","a","r","c","h">>,  \* 'search search search'
    <<"a"," "," ","b">>   \* 'a  b'
  }

\* What the user answers to a confirmation question (cmd_shutdown, cmd_restart).
ConfirmAnswers ==
  {
    <<>>,  \* ''
    <<"Y","e","s">>,  \* 'Yes'
    <<"n","o">>,  \* 'no'
    <<"y","e","s","t","e","r","d","a","y">>,  \* 'yesterday'
    <<"o","h"," ","y","e","s"," ","p","l","e","a","s","e">>   \* 'oh yes please'
  }

\* What the user answers to a handler's clarifying question about its payload.
PayloadAnswers ==
  {
    <<>>,  \* ''
    <<"b","u","y"," ","m","i","l","k">>   \* 'buy milk'
  }

\* What the user answers to "What would you like to call me?".
AssistantNameAnswers ==
  {
    <<>>,  \* ''
    <<"n","o","v","a">>   \* 'nova'
  }

\* What the user answers to "What's your name?".
UserNameAnswers ==
  {
    <<>>,  \* ''
    <<"b","o","b">>   \* 'bob'
  }

\* Answers to "Which task number did you complete?" besides a bare numeral.
OtherNumberAnswers ==
  {
    <<>>,  \* ''
    <<"t","w","o">>,  \* 'two'
    <<"t","a","s","k"," ","2"," ","p","l","e","a","s","e">>,  \* 'task 2 please'
    <<"1","2">>   \* '12'
  }

\* The lines of a session that only manages the to-do list.
TaskUtterances ==
  {
    <<"a","d","d"," ","t","a","s","k"," ","b","u","y"," ","m","i","l","k">>,  \* 'add task buy milk'
    <<"A","d","d"," ","t","a","s","k"," ","c","a","l","l"," ","b","o","b">>,  \* 'Add task call bob'
    <<"a","d","d"," ","t","a","s","k"," ","a","d","d"," ","s","a","l","t">>,  \* 'add task add salt'
    <<"r","e","a","d"," ","m","y"," ","t","a","s","k","s">>,  \* 'read my tasks'
    <<"c","o","m","p","l","e","t","e"," ","t","a","s","k">>   \* 'complete task'
  }

\* The lines of a session that keeps notes, among other commands.
NoteUtterances ==
  {
    <<"n","o","t","e"," ","t","h","a","t"," ","b","u","y"," ","m","i","l","k">>,  \* 'note that buy milk'
    <<"T","a","k","e"," ","a"," ","n","o","t","e">>,  \* 'Take a note'
    <<"n","o","t","e"," ","d","o","w","n"," ","c","a","l","l"," ","b","o","b">>,  \* 'note down call bob'
    <<"r","e","a","d"," ","m","y"," ","n","o","t","e","s">>,  \* 'read my notes'
    <<"w","h","a","t"," ","t","i","m","e"," ","i","s"," ","i","t">>,  \* 'what time is it'
    <<"r","e","a","d"," ","m","y"," ","t","a","s","k","s">>,  \* 'read my tasks'
    <<"a","d","d"," ","t","a","s","k"," ","b","u","y"," ","m","i","l","k">>   \* 'add task buy milk'
  }
\* The lines of a session that changes the settings, among other commands.
ConfigUtterances ==
  {
    <<"r","e","n","a","m","e"," ","y","o","u","r","s","e","l","f">>,  \* 'rename yourself'
    <<"c","h","a","n","g","e"," ","m","y"," ","n","a","m","e">>,  \* 'change my name'
    <<"c","h","a","n","g","e"," ","y","o","u","r"," ","n","a","m","e">>,  \* 'change your name'
    <<"w","h","o"," ","a","r","e"," ","y","o","u">>,  \* 'who are you'
    <<"h","o","w"," ","a","r","e"," ","y","o","u">>,  \* 'how are you'
    <<"w","h","a","t"," ","t","i","m","e"," ","i","s"," ","i","t">>,  \* 'what time is it'
    <<"e","x","i","t">>   \* 'exit'
  }
\* The example commands of HELP_TEXT, as printed.
HelpExamples ==
  UNION {{HELP_TEXT[n].examples[e] : e \in 1..Len(HELP_TEXT[n].examples)} :
           n \in 1..Len(HELP_TEXT)}

\* The keyword phrases of COMMAND_TABLE, each said on its own.
TriggerPhrases ==
  UNION {{COMMAND_TABLE[i].keywords[k] : k \in 1..Len(COMMAND_TABLE[i].keywords)} :
           i \in 1..Len(COMMAND_TABLE)}

\* The lines of a session that tries the commands of the help text and the
\* phrases of the catalog.
CatalogUtterances == HelpExamples \cup TriggerPhrases

Digit(n) == <<DIGITS[n + 1]>>

\* Answers to "Which task number did you complete?": the numerals 0 to
\* MaxTasks + 1 (so below, inside and above every pending list) and others.
NumberAnswers == {Digit(n) : n \in 0..(MaxTasks + 1)} \cup OtherNumberAnswers

\* sys.platform
Platforms == {"win32", "darwin", "linux"}

\* The outcomes of wikipedia.summary: a summary, DisambiguationError,
\* PageError, or any other exception (the network, the parser).
LookupOutcomes == {"summary", "DisambiguationError", "PageError", "Exception"}

\* Whether opening a store's file (for reading or for writing) succeeds.
IoOutcomes == {"ok", "OSError"}

(***************************************************************************)
(* The prompts a handler passes to listen, and what the user may answer.    *)
(***************************************************************************)

AnswersTo(prompt) ==
  CASE prompt = <<"Are you sure you want to shut down?">> -> ConfirmAnswers
    [] prompt = <<"Are you sure you want to restart?">> -> ConfirmAnswers
    [] prompt = <<"Which task number did you complete?">> -> NumberAnswers
    [] prompt = <<"What would you like to call me?">> -> AssistantNameAnswers
    [] prompt = <<"What's your name?">> -> UserNameAnswers
    [] prompt = <<>> -> Utterances
    [] OTHER -> PayloadAnswers

(***************************************************************************)
(* Configuration: DEFAULT_CONFIG, data/config.json and load_config.        *)
(***************************************************************************)

\* The keys of DEFAULT_CONFIG, in the order of the dict.
KEYS ==
  <<"assistant_name", "user_name", "voice_rate", "voice_volume", "language",
    "pause_threshold", "energy_threshold", "dynamic_energy", "timeout",
    "phrase_time_limit">>

\* Names are texts; the floats 1.0 and 0.8 are kept as their literals.
DEFAULT_CONFIG ==
  [assistant_name |-> <<"A","r","i","a">>, user_name |-> <<"U","s","e","r">>,
   voice_rate |-> 175, voice_volume |-> "1.0", language |-> "en-US",
   pause_threshold |-> "0.8", energy_threshold |-> 300,
   dynamic_energy |-> TRUE, timeout |-> 5, phrase_time_limit |-> 10]

\* The text of a JSON object: an opening brace, the members as <<key, value>>
\* pairs, a closing brace.
OPEN == <<"{">>
CLOSE == <<"}">>

RECURSIVE dump_members(_, _)
dump_members(cfg, i) ==
  IF i > Len(KEYS) THEN <<>>
  ELSE (IF KEYS[i] \in DOMAIN cfg THEN << <<KEYS[i], cfg[KEYS[i]]>> >> ELSE <<>>)
       \o dump_members(cfg, i + 1)

\* The object written without its first member.
json_dump_skips_first(cfg) ==
  <<OPEN>> \o Tail(dump_members(cfg, 1)) \o <<CLOSE>>

\* json.dump(cfg, f): the members of cfg between braces (written here in the
\* order of KEYS; the program never depends on the order of the members).
json_dump(cfg) == <<OPEN>> \o dump_members(cfg, 1) \o <<CLOSE>>

\* Whether json.load accepts the text: an object, closed, of whole members.
json_parses(text) ==
  /\ Len(text) >= 2
  /\ text[1] = OPEN
  /\ text[Len(text)] = CLOSE
  /\ \A i \in 2..(Len(text) - 1) : Len(text[i]) = 2

\* json.load(f) of a text that parses: the dict of its members, the last
\* member of a key giving its value.
json_load(text) ==
  LET members == 2..(Len(text) - 1)
      last(k) == CHOOSE i \in members :
                    /\ text[i][1] = k
                    /\ \A j \in members : text[j][1] = k => j <= i
  IN  [k \in {text[i][1] : i \in members} |-> text[last(k)][2]]

\* for k, v in DEFAULT_CONFIG.items(): cfg[k] = v
setdefaults_overwrites(cfg) ==
  [k \in DOMAIN cfg \cup DOMAIN DEFAULT_CONFIG |->
     IF k \in DOMAIN DEFAULT_CONFIG THEN DEFAULT_CONFIG[k] ELSE cfg[k]]

\* for k, v in DEFAULT_CONFIG.items(): cfg.setdefault(k, v)
setdefaults(cfg) ==
  [k \in DOMAIN cfg \cup DOMAIN DEFAULT_CONFIG |->
     IF k \in DOMAIN cfg THEN cfg[k] ELSE DEFAULT_CONFIG[k]]

\* The module-level name CONFIG before load_config has returned.
NoConfig == <<>>

\* load_config that answers a text json.load rejects by writing the
\* defaults over it.
load_config_resets_malformed(exists, text) ==
  {IF io = "OSError"
   THEN [exc |-> TRUE, val |-> NoConfig, exists |-> exists, file |-> text]
   ELSE IF exists /\ json_parses(text)
   THEN [exc |-> FALSE, val |-> setdefaults(json_load(text)),
         exists |-> TRUE, file |-> text]
   ELSE [exc |-> FALSE, val |-> DEFAULT_CONFIG,
         exists |-> TRUE, file |-> json_dump(DEFAULT_CONFIG)]
   : io \in IoOutcomes}

\* load_config(), for data/config.json as it is on the disk: the outcomes
\* are the dict returned and the file left, or the exception of a file that
\* cannot be opened or of a text that json.load rejects.
load_config(exists, text) ==
  {IF io = "OSError"
   THEN [exc |-> TRUE, val |-> NoConfig, exists |-> exists, file |-> text]
   ELSE IF exists
   THEN (IF json_parses(text)
         THEN [exc |-> FALSE, val |-> setdefaults(json_load(text)),
               exists |-> TRUE, file |-> text]
         ELSE [exc |-> TRUE, val |-> NoConfig, exists |-> TRUE, file |-> text])
   ELSE [exc |-> FALSE, val |-> DEFAULT_CONFIG,
         exists |-> TRUE, file |-> json_dump(DEFAULT_CONFIG)]
   : io \in IoOutcomes}

\* Values a user has set by hand in data/config.json.
EDITED_CONFIG ==
  [assistant_name |-> <<"N","o","v","a">>, user_name |-> <<"B","o","b">>,
   voice_rate |-> 150, voice_volume |-> "0.5", language |-> "en-GB",
   pause_threshold |-> "1.2", energy_threshold |-> 400,
   dynamic_energy |-> FALSE, timeout |-> 8, phrase_time_limit |-> 15]

\* The members of a document in which each of the first MaxDocKeys keys is
\* absent, holds its default, or holds the edited value.
RECURSIVE MembersFrom(_, _)
MembersFrom(i, choice) ==
  IF i > MaxDocKeys THEN <<>>
  ELSE (CASE choice[i] = "absent" -> <<>>
          [] choice[i] = "default" -> << <<KEYS[i], DEFAULT_CONFIG[KEYS[i]]>> >>
          [] choice[i] = "edited" -> << <<KEYS[i], EDITED_CONFIG[KEYS[i]]>> >>)
       \o MembersFrom(i + 1, choice)

\* The well-formed documents data/config.json may hold at start-up.
Documents ==
  {<<OPEN>> \o MembersFrom(1, choice) \o <<CLOSE>> :
     choice \in [1..MaxDocKeys -> {"absent", "default", "edited"}]}

\* The malformed ones: a document cut before its closing brace, a document
\* cut inside its last member, an empty file.
MalformedDocuments ==
  {SubSeq(d, 1, Len(d) - 1) : d \in Documents}
    \cup {SubSeq(d, 1, Len(d) - 2) \o << <<d[Len(d) - 1][1]>> >> :
            d \in {x \in Documents : Len(x) > 2}}
    \cup {<<>>}

(***************************************************************************)
(* The world a handler acts on: the in-memory CONFIG, the three persisted   *)
(* documents, and the logs of what was spoken, heard, done through the      *)
(* action ports and invoked by dispatch during the current step.            *)
(***************************************************************************)

\* A handler's outcome: it returned, or an exception left it.
Ret(w) == {[w |-> w, exc |-> FALSE]}
Raise(w) == {[w |-> w, exc |-> TRUE]}

\* speak(text): the text goes to the speech engine.
speak(w, text) == [w EXCEPT !.spoken = Append(@, text)]

\* A call of an action port (webbrowser.open, os.system, subprocess.Popen,
\* ctypes, wikipedia.summary).
act(w, call) == [w EXCEPT !.effects = Append(@, call)]

\* listen(prompt): the prompt is spoken, the microphone is opened (which
\* raises when the host has none) and the phrase is recognised; a timeout,
\* an unintelligible phrase and an unreachable service each return "".
listen(w, prompt) ==
  LET w1 == IF prompt # <<>> THEN speak(w, prompt) ELSE w
      hear(x, ev, v) ==
        [w |-> [x EXCEPT !.heard = Append(@, v)], exc |-> FALSE,
         val |-> v, event |-> ev]
  IN  {[w |-> w1, exc |-> TRUE, val |-> <<>>, event |-> "OSError"]}
      \cup {hear(w1, "WaitTimeoutError", <<>>)}
      \cup {hear(w1, "recognized", strip(lower(a))) : a \in AnswersTo(prompt)}
      \cup {hear(speak(w1, <<"Sorry, I didn't catch that. Could you repeat?">>),
                 "UnknownValueError", <<>>)}
      \cup {hear(speak(w1, <<"I'm having trouble reaching the speech service. Please check your internet.">>),
                 "RequestError", <<>>)}

\* take_text_input(): a typed line, lower-cased and stripped.
take_text_input(lines) == {strip(lower(u)) : u \in lines}

\* Every query the main loop can pass to dispatch.
Queries ==
  take_text_input(Utterances \cup TaskUtterances \cup NoteUtterances
                    \cup ConfigUtterances \cup CatalogUtterances) \cup {<<>>}

(***************************************************************************)
(* The handlers. Each maps the world and the query to the set of its        *)
(* outcomes: one outcome per answer of the user and per outcome of an       *)
(* external call.                                                           *)
(***************************************************************************)

Min(S) == CHOOSE x \in S : \A y \in S : x <= y

cmd_time(w, query) == Ret(speak(w, <<"The current time is", "%I:%M %p">>))

cmd_date(w, query) == Ret(speak(w, <<"Today is", "%A, %B %d, %Y">>))

\* for site, url in SITES.items(): the first site named in the query.
cmd_open_site(w, query) ==
  LET hits == {i \in 1..Len(SITES) : Contains(SITES[i], query)}
  IN  IF hits # {}
      THEN Ret(act(speak(w, <<"Opening", SITES[Min(hits)]>>),
                   <<"webbrowser.open", SITES[Min(hits)]>>))
      ELSE Ret(speak(w, <<"Which website would you like me to open?">>))

cmd_search_google(w, query) ==
  LET term == strip(re_sub(RE_search_google, query))
      asked == IF term = <<>>
               THEN listen(w, <<"What would you like me to search for?">>)
               ELSE {[w |-> w, exc |-> FALSE, val |-> term]}
  IN  UNION {IF r.exc THEN Raise(r.w)
             ELSE IF r.val # <<>>
             THEN Ret(act(speak(r.w, <<"Searching Google for:", r.val>>),
                          <<"webbrowser.open google search", replace_space_plus(r.val)>>))
             ELSE Ret(r.w) : r \in asked}

cmd_search_youtube(w, query) ==
  LET term == strip(re_sub(RE_search_youtube, query))
      asked == IF term = <<>>
               THEN listen(w, <<"What would you like to search on YouTube?">>)
               ELSE {[w |-> w, exc |-> FALSE, val |-> term]}
  IN  UNION {IF r.exc THEN Raise(r.w)
             ELSE IF r.val # <<>>
             THEN Ret(act(speak(r.w, <<"Searching YouTube for:", r.val>>),
                          <<"webbrowser.open youtube search", replace_space_plus(r.val)>>))
             ELSE Ret(r.w) : r \in asked}

\* The try block of cmd_wikipedia: every exception of the lookup is caught
\* and answered with a spoken message.
wikipedia_summary(w, topic) ==
  {CASE o = "summary" ->
          speak(act(w, <<"wikipedia.summary", topic>>), <<"summary of", topic>>)
     [] o = "DisambiguationError" ->
          speak(act(w, <<"wikipedia.summary", topic>>),
                <<"There are multiple results. Did you mean:", topic>>)
     [] o = "PageError" ->
          speak(act(w, <<"wikipedia.summary", topic>>),
                <<"I couldn't find a Wikipedia page for that topic.">>)
     [] o = "Exception" ->
          speak(act(w, <<"wikipedia.summary", topic>>),
                <<"Something went wrong while fetching Wikipedia.">>)
   : o \in LookupOutcomes}

\* cmd_wikipedia looking up the query as it is, its trigger words kept.
cmd_wikipedia_whole_query(w, query) ==
  UNION {Ret(x) : x \in wikipedia_summary(
           speak(w, <<"Searching Wikipedia for:", query>>), query)}

cmd_wikipedia(w, query) ==
  LET topic == strip(re_sub(RE_wikipedia, query))
      asked == IF topic = <<>>
               THEN listen(w, <<"What topic would you like me to look up on Wikipedia?">>)
               ELSE {[w |-> w, exc |-> FALSE, val |-> topic]}
  IN  UNION {IF r.exc THEN Raise(r.w)
             ELSE IF r.val = <<>> THEN Ret(r.w)
             ELSE UNION {Ret(x) : x \in wikipedia_summary(
                           speak(r.w, <<"Searching Wikipedia for:", r.val>>), r.val)}
             : r \in asked}

\* The line written at the head of the file.
append_note_at_front(w, note) ==
  {IF io = "ok"
   THEN [w |-> [w EXCEPT !.notes_file =
                   <<[timestamp |-> "[%Y-%m-%d %H:%M]", text |-> note]>> \o @],
         exc |-> FALSE]
   ELSE [w |-> w, exc |-> TRUE] : io \in IoOutcomes}

\* with open(NOTES_FILE, "a") as f: f.write(f"{timestamp} {note}\n")
append_note(w, note) ==
  {IF io = "ok"
   THEN [w |-> [w EXCEPT !.notes_file =
                   Append(@, [timestamp |-> "[%Y-%m-%d %H:%M]", text |-> note])],
         exc |-> FALSE]
   ELSE [w |-> w, exc |-> TRUE] : io \in IoOutcomes}

\* cmd_write_note asking again when the answer is empty.
cmd_write_note_asks_twice(w, query) ==
  LET note == strip(re_sub(RE_write_note, query))
      prompt == <<"What would you like to note down?">>
      asked == IF note = <<>>
               THEN UNION {IF r.exc \/ r.val # <<>> THEN {r} ELSE listen(r.w, prompt)
                           : r \in listen(w, prompt)}
               ELSE {[w |-> w, exc |-> FALSE, val |-> note]}
  IN  UNION {IF r.exc THEN Raise(r.w)
             ELSE IF r.val # <<>>
             THEN {IF a.exc THEN a ELSE [a EXCEPT !.w = speak(@, <<"Note saved!">>)]
                   : a \in append_note(r.w, r.val)}
             ELSE Ret(r.w) : r \in asked}

cmd_write_note(w, query) ==
  LET note == strip(re_sub(RE_write_note, query))
      asked == IF note = <<>>
               THEN listen(w, <<"What would you like to note down?">>)
               ELSE {[w |-> w, exc |-> FALSE, val |-> note]}
  IN  UNION {IF r.exc THEN Raise(r.w)
             ELSE IF r.val # <<>>
             THEN {IF a.exc THEN a ELSE [a EXCEPT !.w = speak(@, <<"Note saved!">>)]
                   : a \in append_note(r.w, r.val)}
             ELSE Ret(r.w) : r \in asked}

\* notes[:5]
LastFive_first_five(notes) == SubSeq(notes, 1, Min({5, Len(notes)}))

\* notes[-5:]
LastFive(notes) ==
  SubSeq(notes, IF Len(notes) > 5 THEN Len(notes) - 4 ELSE 1, Len(notes))

RECURSIVE speak_notes(_, _, _)
speak_notes(w, notes, i) ==
  IF i > Len(notes) THEN w
  ELSE speak_notes(speak(w, <<"Note", i, notes[i]>>), notes, i + 1)

cmd_read_notes(w, query) ==
  IF w.notes_file = <<>>
  THEN Ret(speak(w, <<"You have no notes saved.">>))
  ELSE {IF io = "ok"
        THEN [w |-> speak_notes(speak(w, <<"You have note(s)", Len(w.notes_file)>>),
                                LastFive(w.notes_file), 1),
              exc |-> FALSE]
        ELSE [w |-> w, exc |-> TRUE] : io \in IoOutcomes}

\* _load_todos(): the list in todo.json ([] when the file is absent), or the
\* exception of a file that cannot be opened.
_load_todos(w) ==
  {IF io = "ok" THEN [exc |-> FALSE, val |-> w.todo_file]
   ELSE [exc |-> TRUE, val |-> <<>>] : io \in IoOutcomes}

\* [t for t in todos if not t["done"]]
RECURSIVE Pending(_)
Pending(todos) ==
  IF todos = <<>> THEN <<>>
  ELSE IF ~Head(todos).done THEN <<Head(todos)>> \o Pending(Tail(todos))
  ELSE Pending(Tail(todos))

\* todo.json rewritten with the pending tasks only.
_save_todos_pending_only(w, todos) ==
  {IF io = "ok" THEN [w |-> [w EXCEPT !.todo_file = Pending(todos)], exc |-> FALSE]
   ELSE [w |-> w, exc |-> TRUE] : io \in IoOutcomes}

\* _save_todos(todos): todo.json rewritten in full, or the exception of a
\* file that cannot be opened for writing.
_save_todos(w, todos) ==
  {IF io = "ok" THEN [w |-> [w EXCEPT !.todo_file = todos], exc |-> FALSE]
   ELSE [w |-> w, exc |-> TRUE] : io \in IoOutcomes}

cmd_add_todo(w, query) ==
  LET task == strip(re_sub(RE_add_todo, query))
      asked == IF task = <<>>
               THEN listen(w, <<"What task would you like to add?">>)
               ELSE {[w |-> w, exc |-> FALSE, val |-> task]}
  IN  UNION {IF r.exc THEN Raise(r.w)
             ELSE IF r.val # <<>>
             THEN UNION {IF l.exc THEN Raise(r.w)
                         ELSE {IF s.exc THEN s
                               ELSE [s EXCEPT !.w = speak(@, <<"Added to your to-do list:", r.val>>)]
                               : s \in _save_todos(r.w,
                                    Append(l.val, [task |-> r.val, done |-> FALSE,
                                                   added |-> "str(datetime.now())"]))}
                         : l \in _load_todos(r.w)}
             ELSE Ret(r.w) : r \in asked}

RECURSIVE speak_tasks(_, _, _)
speak_tasks(w, pending, i) ==
  IF i > Len(pending) THEN w
  ELSE speak_tasks(speak(w, <<"task", i, pending[i].task>>), pending, i + 1)

cmd_read_todos(w, query) ==
  UNION {IF l.exc THEN Raise(w)
         ELSE IF Pending(l.val) = <<>>
         THEN Ret(speak(w, <<"Your to-do list is empty.">>))
         ELSE Ret(speak_tasks(speak(w, <<"You have pending task(s)", Len(Pending(l.val))>>),
                              Pending(l.val), 1))
         : l \in _load_todos(w)}

\* Python's list[num] for num >= -1: the position (from 1) it selects, 0 when
\* it raises IndexError.
PyIndex(list, num) ==
  IF num >= 0
  THEN (IF num < Len(list) THEN num + 1 ELSE 0)
  ELSE (IF -num <= Len(list) THEN Len(list) + num + 1 ELSE 0)

\* The try block of cmd_complete_todo, for the answer of the user.
complete_by_answer(w, todos, pending, response) ==
  LET digits == re_search_digits(response)
      num == int(digits) - 1
      failed(x) == Ret(speak(x, <<"I couldn't identify that task number.">>))
  IN  IF digits = <<>> THEN failed(w)                \* AttributeError
      ELSE IF PyIndex(todos, num) = 0 THEN failed(w) \* IndexError at todos[num]
      ELSE UNION {IF s.exc THEN {s}
                  ELSE IF PyIndex(pending, num) = 0
                  THEN failed(s.w)                   \* IndexError at pending[num]
                  ELSE Ret(speak(s.w, <<"Great job! Marked as done:",
                                        pending[PyIndex(pending, num)].task>>))
                  : s \in _save_todos(w,
                       [todos EXCEPT ![PyIndex(todos, num)].done = TRUE])}

cmd_complete_todo(w, query) ==
  UNION {IF l.exc THEN Raise(w)
         ELSE IF Pending(l.val) = <<>> THEN Ret(speak(w, <<"No pending tasks.">>))
         ELSE UNION {IF rd.exc THEN {rd}
                     ELSE UNION {IF r.exc THEN Raise(r.w)
                                 ELSE complete_by_answer(r.w, l.val, Pending(l.val), r.val)
                                 : r \in listen(rd.w, <<"Which task number did you complete?">>)}
                     : rd \in cmd_read_todos(w, <<>>)}
         : l \in _load_todos(w)}

YES == <<"y", "e", "s">>

cmd_shutdown(w, query) ==
  UNION {IF r.exc THEN Raise(r.w)
         ELSE IF Contains(YES, r.val)
         THEN Ret(act(speak(r.w, <<"Shutting down. Goodbye!">>),
                      <<"os.system", IF w.platform = "win32"
                                     THEN "shutdown /s /t 5" ELSE "shutdown -h now">>))
         ELSE Ret(speak(r.w, <<"Shutdown cancelled.">>))
         : r \in listen(w, <<"Are you sure you want to shut down?">>)}

cmd_restart(w, query) ==
  UNION {IF r.exc THEN Raise(r.w)
         ELSE IF Contains(YES, r.val)
         THEN Ret(act(speak(r.w, <<"Restarting. See you soon!">>),
                      <<"os.system", IF w.platform = "win32"
                                     THEN "shutdown /r /t 5" ELSE "shutdown -r now">>))
         ELSE Ret(speak(r.w, <<"Restart cancelled.">>))
         : r \in listen(w, <<"Are you sure you want to restart?">>)}

cmd_lock(w, query) ==
  Ret(act(speak(w, <<"Locking the screen.">>),
          IF w.platform = "win32" THEN <<"ctypes", "LockWorkStation">>
          ELSE IF w.platform = "darwin" THEN <<"os.system", "pmset displaysleepnow">>
          ELSE <<"os.system", "gnome-screensaver-command -l || xdg-screensaver lock">>))

\* On win32 the imports of comtypes and pycaw raise when they are not
\* installed.
cmd_volume_up(w, query) ==
  IF w.platform = "win32"
  THEN Raise(w)
       \cup Ret(speak(act(w, <<"pycaw", "SetMasterVolumeLevelScalar">>),
                      <<"Volume increased.">>))
  ELSE Ret(speak(act(w, <<"os.system", "amixer -D pulse sset Master 10%+">>),
                 <<"Volume increased.">>))

cmd_volume_down(w, query) ==
  IF w.platform = "win32"
  THEN Ret(speak(speak(w, <<"Volume down not supported without pycaw on Windows. Please adjust manually.">>),
                 <<"Volume decreased.">>))
  ELSE Ret(speak(act(w, <<"os.system", "amixer -D pulse sset Master 10%-">>),
                 <<"Volume decreased.">>))

cmd_open_app(w, query) ==
  LET hits == {i \in 1..Len(APP_COMMANDS) : Contains(APP_COMMANDS[i], query)}
  IN  IF hits # {}
      THEN Ret(act(speak(w, <<"Opening", APP_COMMANDS[Min(hits)]>>),
                   <<"subprocess.Popen", APP_COMMANDS[Min(hits)]>>))
      ELSE Ret(speak(w, <<"I don't know how to open that application.">>))

\* len(JOKES)
NumJokes == 5

\* random.choice(JOKES)
cmd_joke(w, query) == {[w |-> speak(w, <<"joke", k>>), exc |-> FALSE] : k \in 1..NumJokes}

cmd_how_are_you(w, query) ==
  Ret(speak(w, <<"I'm doing great, thank you for asking! Ready to help you,", w.CONFIG.user_name>>))

cmd_name(w, query) == Ret(speak(w, <<"My name is", w.CONFIG.assistant_name>>))

cmd_creator(w, query) == Ret(speak(w, <<"I was built by a Python developer">>))

cmd_help(w, query) ==
  Ret(speak(w, <<"I've printed the full command list on the screen for you.">>))

\* with open(CONFIG_FILE, "w") as f: json.dump(CONFIG, f, indent=4)
dump_config(w) ==
  {IF io = "ok" THEN [w |-> [w EXCEPT !.config_file = json_dump(w.CONFIG)], exc |-> FALSE]
   ELSE [w |-> w, exc |-> TRUE] : io \in IoOutcomes}

cmd_change_assistant_name(w, query) ==
  UNION {IF r.exc THEN Raise(r.w)
         ELSE IF r.val # <<>>
         THEN {IF d.exc THEN d
               ELSE [d EXCEPT !.w = speak(@, <<"Okay! You can now call me", d.w.CONFIG.assistant_name>>)]
               : d \in dump_config([r.w EXCEPT !.CONFIG.assistant_name = title(r.val)])}
         ELSE Ret(r.w)
         : r \in listen(w, <<"What would you like to call me?">>)}

cmd_change_user_name(w, query) ==
  UNION {IF r.exc THEN Raise(r.w)
         ELSE IF r.val # <<>>
         THEN {IF d.exc THEN d
               ELSE [d EXCEPT !.w = speak(@, <<"Got it! I'll call you from now on", d.w.CONFIG.user_name>>)]
               : d \in dump_config([r.w EXCEPT !.CONFIG.user_name = title(r.val)])}
         ELSE Ret(r.w)
         : r \in listen(w, <<"What's your name?">>)}

(***************************************************************************)
(* The dispatcher.                                                          *)
(***************************************************************************)

\* handler(query), for the handler an entry of COMMAND_TABLE names.
Handler(h, w, query) ==
      CASE h = "cmd_time" -> cmd_time(w, query)
        [] h = "cmd_date" -> cmd_date(w, query)
        [] h = "cmd_open_site" -> cmd_open_site(w, query)
        [] h = "cmd_search_google" -> cmd_search_google(w, query)
        [] h = "cmd_search_youtube" -> cmd_search_youtube(w, query)
        [] h = "cmd_wikipedia" -> cmd_wikipedia(w, query)
        [] h = "cmd_write_note" -> cmd_write_note(w, query)
        [] h = "cmd_read_notes" -> cmd_read_notes(w, query)
        [] h = "cmd_add_todo" -> cmd_add_todo(w, query)
        [] h = "cmd_read_todos" -> cmd_read_todos(w, query)
        [] h = "cmd_complete_todo" -> cmd_complete_todo(w, query)
        [] h = "cmd_shutdown" -> cmd_shutdown(w, query)
        [] h = "cmd_restart" -> cmd_restart(w, query)
        [] h = "cmd_lock" -> cmd_lock(w, query)
        [] h = "cmd_volume_up" -> cmd_volume_up(w, query)
        [] h = "cmd_volume_down" -> cmd_volume_down(w, query)
        [] h = "cmd_open_app" -> cmd_open_app(w, query)
        [] h = "cmd_joke" -> cmd_joke(w, query)
        [] h = "cmd_how_are_you" -> cmd_how_are_you(w, query)
        [] h = "cmd_name" -> cmd_name(w, query)
        [] h = "cmd_creator" -> cmd_creator(w, query)
        [] h = "cmd_change_assistant_name" -> cmd_change_assistant_name(w, query)
        [] h = "cmd_change_user_name" -> cmd_change_user_name(w, query)
        [] h = "cmd_help" -> cmd_help(w, query)

\* A call of a handler by dispatch, logged: invoked takes the handler and
\* its argument, failed the handler an exception leaves.
Call(h, w, query) ==
  {IF r.exc THEN [r EXCEPT !.w.failed = Append(@, h)] ELSE r
   : r \in Handler(h, [w EXCEPT !.invoked = Append(@, <<h, query>>)], query)}

\* The entries of COMMAND_TABLE with a keyword phrase inside the query.
Matching(query) ==
  {i \in 1..Len(COMMAND_TABLE) : AnyIn(COMMAND_TABLE[i].keywords, query)}

\* any(kw in query for kw in EXIT_KEYWORDS)
IsExit(query) == AnyIn(EXIT_KEYWORDS, query)

\* Matching and IsExit of every query, computed once.
MatchingOf == [q \in Queries |-> Matching(q)]

IsExitOf == [q \in Queries |-> IsExit(q)]

\* dispatch_matched without its try/except: the exception leaves dispatch.
dispatch_matched_no_try(w, query) ==
  {[w |-> r.w, ret |-> IF r.exc THEN "raised" ELSE "True"]
   : r \in Call(COMMAND_TABLE[Min(MatchingOf[query])].handler, w, query)}

Max(S) == CHOOSE x \in S : \A y \in S : x >= y

\* dispatch_matched taking the last matching entry instead of the first.
dispatch_matched_last(w, query) ==
  {[w |-> IF r.exc
          THEN speak(r.w, <<"Sorry, something went wrong with that command.">>)
          ELSE r.w,
    ret |-> "True"]
   : r \in Call(COMMAND_TABLE[Max(MatchingOf[query])].handler, w, query)}

\* The loop over COMMAND_TABLE: the first matching entry's handler runs
\* inside try/except Exception, and dispatch returns True either way.
dispatch_matched(w, query) ==
  {[w |-> IF r.exc
          THEN speak(r.w, <<"Sorry, something went wrong with that command.">>)
          ELSE r.w,
    ret |-> "True"]
   : r \in Call(COMMAND_TABLE[Min(MatchingOf[query])].handler, w, query)}

\* dispatch_fallback looking up every input of two tokens or more.
dispatch_fallback_two_tokens(w, query) ==
  IF SplitLen(query) >= 2
  THEN {[w |-> r.w, ret |-> IF r.exc THEN "raised" ELSE "True"]
        : r \in Call("cmd_wikipedia",
                     speak(w, <<"I'm not sure about that, but let me check Wikipedia.">>),
                     query)}
  ELSE {[w |-> speak(w, <<"I didn't understand that command. Try saying 'help' to see what I can do.">>),
         ret |-> "True"]}

\* The fallback: cmd_wikipedia is called outside any try, so an exception
\* that leaves it leaves dispatch too.
dispatch_fallback(w, query) ==
  IF SplitLen(query) >= 3
  THEN {[w |-> r.w, ret |-> IF r.exc THEN "raised" ELSE "True"]
        : r \in Call("cmd_wikipedia",
                     speak(w, <<"I'm not sure about that, but let me check Wikipedia.">>),
                     query)}
  ELSE {[w |-> speak(w, <<"I didn't understand that command. Try saying 'help' to see what I can do.">>),
         ret |-> "True"]}

\* dispatch matching the catalog before it checks the exit keywords.
dispatch_intent_first(w, query) ==
  IF query = <<>> THEN {[w |-> w, ret |-> "True"]}
  ELSE IF MatchingOf[query] # {} THEN dispatch_matched(w, query)
  ELSE IF IsExitOf[query]
  THEN {[w |-> speak(w, <<"Goodbye! Have a wonderful day.", w.CONFIG.user_name>>),
         ret |-> "False"]}
  ELSE dispatch_fallback(w, query)

\* dispatch without its check of the empty query.
dispatch_no_empty_check(w, query) ==
  IF IsExitOf[query]
  THEN {[w |-> speak(w, <<"Goodbye! Have a wonderful day.", w.CONFIG.user_name>>),
         ret |-> "False"]}
  ELSE IF MatchingOf[query] # {} THEN dispatch_matched(w, query)
  ELSE dispatch_fallback(w, query)

\* dispatch(query): the outcomes [w, ret], ret being "True", "False" or
\* "raised" (an exception left dispatch).
dispatch(w, query) ==
  IF query = <<>> THEN {[w |-> w, ret |-> "True"]}
  ELSE IF IsExitOf[query]
  THEN {[w |-> speak(w, <<"Goodbye! Have a wonderful day.", w.CONFIG.user_name>>),
         ret |-> "False"]}
  ELSE IF MatchingOf[query] # {} THEN dispatch_matched(w, query)
  ELSE dispatch_fallback(w, query)

(***************************************************************************)
(* The program: run(use_voice).                                             *)
(***************************************************************************)

VARIABLES
  pc,           \* where the program is: "import" (load_config not yet called),
                \* "failed" (the import raised), and in run "start", "input",
                \* "dispatch", "loop", "exited", "crashed"
  use_voice,    \* the run mode: listen() or take_text_input()
  platform,     \* sys.platform
  CONFIG,       \* the in-memory configuration
  config_exists,\* whether data/config.json exists
  config_file,  \* data/config.json, its text
  notes_file,   \* data/notes.txt, a sequence of lines
  todo_file,    \* data/todo.json, a sequence of tasks
  query,        \* the input of the current iteration
  event,        \* how the input was obtained
  ret,          \* what the last dispatch returned: "True", "False", "raised"
  spoken,       \* what was spoken during the last step
  effects,      \* the action-port calls of the last step
  heard,        \* what listen returned during the last step
  invoked,      \* the handlers dispatch called during the last step
  failed        \* the handlers an exception left during the last step

stores == <<CONFIG, config_file, notes_file, todo_file>>

logs == <<spoken, effects, heard, invoked, failed>>

vars ==
  <<pc, use_voice, platform, CONFIG, config_exists, config_file, notes_file,
    todo_file,
    query, event, ret, spoken, effects, heard, invoked, failed>>

\* The world at the start of a step: the stores as they are, the logs empty.
World ==
  [platform |-> platform, CONFIG |-> CONFIG, config_file |-> config_file,
   notes_file |-> notes_file, todo_file |-> todo_file,
   spoken |-> <<>>, effects |-> <<>>, heard |-> <<>>, invoked |-> <<>>,
   failed |-> <<>>]

\* The variables take the world a step leaves.
Becomes(w) ==
  /\ CONFIG' = w.CONFIG
  /\ config_file' = w.config_file
  /\ notes_file' = w.notes_file
  /\ todo_file' = w.todo_file
  /\ spoken' = w.spoken
  /\ effects' = w.effects
  /\ heard' = w.heard
  /\ invoked' = w.invoked
  /\ failed' = w.failed

\* After load_config() on a first run: the defaults, persisted.
Init ==
  /\ pc = "start"
  /\ use_voice \in BOOLEAN
  /\ platform \in Platforms
  /\ CONFIG = DEFAULT_CONFIG
  /\ config_exists = TRUE
  /\ config_file = json_dump(DEFAULT_CONFIG)
  /\ notes_file = <<>>
  /\ todo_file = <<>>
  /\ query = <<>>
  /\ event = "none"
  /\ ret = "none"
  /\ spoken = <<>>
  /\ effects = <<>>
  /\ heard = <<>>
  /\ invoked = <<>>
  /\ failed = <<>>

\* wish_me(): the greeting of the hour.
wish_me ==
  /\ pc = "start"
  /\ \E greeting \in {"Good morning", "Good afternoon", "Good evening", "Hello"} :
       Becomes(speak(World, <<greeting, CONFIG.user_name, CONFIG.assistant_name>>))
  /\ pc' = "input"
  /\ UNCHANGED <<config_exists, use_voice, platform, query, event, ret>>

\* query = listen(): the recognised phrase, "" after a transcription fault;
\* the exception of a missing microphone ends run.
VoiceInput ==
  /\ pc = "input"
  /\ use_voice
  /\ \E r \in listen(World, <<>>) :
       /\ Becomes(r.w)
       /\ query' = r.val
       /\ event' = r.event
       /\ pc' = IF r.exc THEN "crashed" ELSE "dispatch"
  /\ ret' = "none"
  /\ UNCHANGED <<config_exists, use_voice, platform>>

\* query = take_text_input(), the user typing one of the lines typed.
TextInputOf(typed) ==
  /\ pc = "input"
  /\ ~use_voice
  /\ \E q \in typed :
       /\ Becomes(World)
       /\ query' = q
  /\ event' = "typed"
  /\ pc' = "dispatch"
  /\ ret' = "none"
  /\ UNCHANGED <<config_exists, use_voice, platform>>

\* if not dispatch(query): break, with the stores kept within maxTasks tasks
\* and maxItems tasks and notes.
DispatchWithin(maxTasks, maxItems) ==
  /\ pc = "dispatch"
  /\ \E r \in dispatch(World, query) :
       /\ Len(r.w.todo_file) <= maxTasks
       /\ Len(r.w.todo_file) + Len(r.w.notes_file) <= maxItems
       /\ Becomes(r.w)
       /\ ret' = r.ret
       /\ pc' = CASE r.ret = "True" -> "loop"
                  [] r.ret = "False" -> "exited"
                  [] r.ret = "raised" -> "crashed"
  /\ UNCHANGED <<config_exists, use_voice, platform, query, event>>

TextInput == TextInputOf(take_text_input(Utterances))

Dispatch == DispatchWithin(MaxSessionItems, MaxSessionItems)

\* while True: the next iteration starts; nothing of the last one is kept
\* but the stores.
Continue ==
  /\ pc = "loop"
  /\ pc' = "input"
  /\ Becomes(World)
  /\ query' = <<>>
  /\ event' = "none"
  /\ ret' = "none"
  /\ UNCHANGED <<config_exists, use_voice, platform>>

Next == wish_me \/ VoiceInput \/ TextInput \/ Dispatch \/ Continue

Spec == Init /\ [][Next]_vars

(***************************************************************************)
(* A session at the keyboard that only manages the to-do list.              *)
(***************************************************************************)

TaskInput == TextInputOf(take_text_input(TaskUtterances))

TaskDispatch == DispatchWithin(MaxTasks, MaxTasks)

NextTasks == wish_me \/ TaskInput \/ TaskDispatch \/ Continue

InitTasks == Init /\ ~use_voice

SpecTasks == InitTasks /\ [][NextTasks]_vars

(***************************************************************************)
(* A session at the keyboard that keeps notes: notes.txt grows to MaxNotes  *)
(* lines and todo.json stays empty.                                         *)
(***************************************************************************)

NoteInput == TextInputOf(take_text_input(NoteUtterances))

NoteDispatch == DispatchWithin(0, MaxNotes)

NextNotes == wish_me \/ NoteInput \/ NoteDispatch \/ Continue

InitNotes == Init /\ ~use_voice

SpecNotes == InitNotes /\ [][NextNotes]_vars

(***************************************************************************)
(* The program from its start: the import of the module calls load_config  *)
(* on whatever data/config.json holds, then run serves a session at the     *)
(* keyboard that changes the settings.                                      *)
(***************************************************************************)

InitConfig ==
  /\ pc = "import"
  /\ use_voice = FALSE
  /\ platform \in Platforms
  /\ CONFIG = NoConfig
  /\ config_exists \in BOOLEAN
  /\ config_file \in (IF config_exists THEN Documents \cup MalformedDocuments
                      ELSE {<<>>})
  /\ notes_file = <<>>
  /\ todo_file = <<>>
  /\ query = <<>>
  /\ event = "none"
  /\ ret = "none"
  /\ spoken = <<>>
  /\ effects = <<>>
  /\ heard = <<>>
  /\ invoked = <<>>
  /\ failed = <<>>

\* CONFIG = load_config(): an exception ends the program before run.
LoadConfig ==
  /\ pc = "import"
  /\ \E r \in load_config(config_exists, config_file) :
       /\ CONFIG' = r.val
       /\ config_exists' = r.exists
       /\ config_file' = r.file
       /\ pc' = IF r.exc THEN "failed" ELSE "start"
  /\ UNCHANGED <<use_voice, platform, notes_file, todo_file, query, event, ret,
                 spoken, effects, heard, invoked, failed>>

ConfigInput == TextInputOf(take_text_input(ConfigUtterances))

ConfigDispatch == DispatchWithin(0, 0)

NextConfig == LoadConfig \/ wish_me \/ ConfigInput \/ ConfigDispatch \/ Continue

SpecConfig == InitConfig /\ [][NextConfig]_vars

(***************************************************************************)
(* A session at the keyboard that tries the example commands of the help    *)
(* text and the keyword phrases of COMMAND_TABLE.                           *)
(***************************************************************************)

CatalogInput == TextInputOf(take_text_input(CatalogUtterances))

CatalogDispatch == DispatchWithin(MaxSessionItems, MaxSessionItems)

NextCatalog == wish_me \/ CatalogInput \/ CatalogDispatch \/ Continue

InitCatalog == Init /\ ~use_voice

SpecCatalog == InitCatalog /\ [][NextCatalog]_vars

(***************************************************************************)
(* Properties of the dispatcher.                                            *)
(***************************************************************************)

\* dispatch has returned or raised for the current query.
Dispatched == ret # "none"

\* For each query, whether an Exit Keyword occurs in it.
ExitKeywordIn ==
  [q \in Queries |-> \E k \in 1..Len(EXIT_KEYWORDS) : Contains(EXIT_KEYWORDS[k], q)]

\* For each query, the entries of COMMAND_TABLE of which a keyword phrase
\* occurs in it.
EntriesIn ==
  [q \in Queries |->
     {i \in 1..Len(COMMAND_TABLE) :
        \E k \in 1..Len(COMMAND_TABLE[i].keywords) :
           Contains(COMMAND_TABLE[i].keywords[k], q)}]

\* For each query, the number of its whitespace-delimited tokens.
TokensIn == [q \in Queries |-> SplitLen(q)]

\* An Exit Keyword occurs in q.
HasExitKeyword(q) == ExitKeywordIn[q]

\* A keyword phrase of entry i of COMMAND_TABLE occurs in q.
EntryMatches(i, q) == i \in EntriesIn[q]

SomeEntryMatches(q) == EntriesIn[q] # {}

\* q reaches the fallback: not empty, no Exit Keyword, no catalog entry.
FallbackInput(q) == q # <<>> /\ ~HasExitKeyword(q) /\ ~SomeEntryMatches(q)

Last(s) == s[Len(s)]

\* C1: for every non-empty input containing an Exit Keyword, dispatch speaks
\* the farewell and nothing else, returns False (run ends) and invokes no
\* handler, also when a catalog entry matches the input.
C1_ExitWins ==
  (Dispatched /\ query # <<>> /\ HasExitKeyword(query)) =>
     /\ ret = "False"
     /\ pc = "exited"
     /\ invoked = <<>>
     /\ effects = <<>>
     /\ spoken = << <<"Goodbye! Have a wonderful day.", CONFIG.user_name>> >>

\* An input with an Exit Keyword and a catalog phrase has taken the exit.
C1_Witness ==
  pc = "exited" /\ ret = "False" /\ SomeEntryMatches(query)

\* C2: when an exception leaves the handler of a matching catalog entry,
\* dispatch speaks the apology last, returns True and run goes on.
C2_HandlerFailureCaught ==
  (Dispatched /\ ~HasExitKeyword(query) /\ SomeEntryMatches(query)
     /\ failed # <<>>) =>
     /\ ret = "True"
     /\ pc = "loop"
     /\ failed = <<invoked[1][1]>>
     /\ Last(spoken) = <<"Sorry, something went wrong with that command.">>

\* A store that cannot be opened made cmd_add_todo fail, and dispatch
\* returned True.
C2_Witness ==
  /\ ret = "True"
  /\ failed = <<"cmd_add_todo">>
  /\ Last(spoken) = <<"Sorry, something went wrong with that command.">>

\* C3: no exception leaves dispatch; run ends only after a dispatch that
\* returned False.
C3_NoFaultEscapesDispatch ==
  (Dispatched /\ pc \in {"exited", "crashed"}) => ret = "False"

\* C6 as claimed: a fallback input of three tokens or more is looked up with
\* the full input text as the topic.
C6_LooksUpFullInput ==
  (Dispatched /\ FallbackInput(query) /\ TokensIn[query] >= 3) =>
     /\ invoked = << <<"cmd_wikipedia", query>> >>
     /\ effects = << <<"wikipedia.summary", query>> >>

SEARCH == <<"s","e","a","r","c","h">>

\* C6 as amended: a fallback input of three tokens or more invokes
\* cmd_wikipedia with the full input text; the topic looked up is the input
\* with every "search" removed and the ends stripped; when nothing is left,
\* one question is asked and its answer looked up, and nothing is looked up
\* when the answer is empty or listen raises.
C6_LooksUpStrippedInput ==
  (Dispatched /\ FallbackInput(query) /\ TokensIn[query] >= 3) =>
     /\ invoked = << <<"cmd_wikipedia", query>> >>
     /\ spoken[1] = <<"I'm not sure about that, but let me check Wikipedia.">>
     /\ LET topic == strip(re_sub(<<SEARCH>>, query))
        IN  IF topic # <<>>
            THEN /\ effects = << <<"wikipedia.summary", topic>> >>
                 /\ heard = <<>>
                 /\ ret = "True"
            ELSE \/ /\ heard = <<>>
                    /\ effects = <<>>
                    /\ ret = "raised"
                 \/ /\ Len(heard) = 1
                    /\ ret = "True"
                    /\ effects = IF heard[1] # <<>>
                                 THEN << <<"wikipedia.summary", heard[1]>> >>
                                 ELSE <<>>

\* A fallback input containing "search" was looked up without that word.
C6_Witness ==
  /\ Dispatched
  /\ FallbackInput(query)
  /\ Contains(SEARCH, query)
  /\ Len(effects) = 1
  /\ effects[1][1] = "wikipedia.summary"
  /\ effects[1][2] # query
  /\ heard = <<>>

\* C7: a non-empty input with no Exit Keyword, no matching entry and fewer
\* than three tokens gets the "didn't understand" message and nothing else:
\* no lookup, no handler, and dispatch returns True.
C7_ShortFallbackNotUnderstood ==
  (Dispatched /\ FallbackInput(query) /\ TokensIn[query] < 3) =>
     /\ spoken = << <<"I didn't understand that command. Try saying 'help' to see what I can do.">> >>
     /\ effects = <<>>
     /\ invoked = <<>>
     /\ heard = <<>>
     /\ ret = "True"
     /\ pc = "loop"

\* An input of two tokens took the fallback.
C7_Witness ==
  /\ Dispatched
  /\ FallbackInput(query)
  /\ TokensIn[query] = 2
  /\ ret = "True"

\* C8: listen maps every transcription fault to the empty input, and
\* dispatch of the empty input returns True, speaks nothing, invokes no
\* handler, calls no port and leaves CONFIG and the three documents as
\* they are.
C8_EmptyInputIsNoOp ==
  [][/\ (event' \in {"WaitTimeoutError", "UnknownValueError", "RequestError"}
           => query' = <<>>)
     /\ (pc = "dispatch" /\ query = <<>>) =>
          /\ ret' = "True"
          /\ pc' = "loop"
          /\ spoken' = <<>>
          /\ invoked' = <<>>
          /\ effects' = <<>>
          /\ heard' = <<>>
          /\ failed' = <<>>
          /\ UNCHANGED stores]_vars

\* The empty input of an unintelligible phrase was dispatched.
C8_Witness ==
  pc = "loop" /\ query = <<>> /\ event = "UnknownValueError" /\ ret = "True"

\* The first entry of COMMAND_TABLE, in table order, that matches q.
FirstMatch(q) ==
  CHOOSE i \in 1..Len(COMMAND_TABLE) :
     EntryMatches(i, q) /\ \A j \in 1..(i - 1) : ~EntryMatches(j, q)

\* C9: for a non-empty input with no Exit Keyword, dispatch invokes the
\* handler of the first matching entry of COMMAND_TABLE, once, and no other
\* handler; when no entry matches, the only handler it may call is the
\* fallback's lookup.
C9_FirstMatchingEntryWins ==
  (Dispatched /\ query # <<>> /\ ~HasExitKeyword(query)) =>
     IF SomeEntryMatches(query)
     THEN invoked = << <<COMMAND_TABLE[FirstMatch(query)].handler, query>> >>
     ELSE \/ invoked = <<>>
          \/ /\ invoked = << <<"cmd_wikipedia", query>> >>
             /\ spoken[1] = <<"I'm not sure about that, but let me check Wikipedia.">>

\* Two entries with different handlers matched, and the earlier one ran.
C9_Witness ==
  /\ Dispatched
  /\ Len(invoked) = 1
  /\ \E i, j \in 1..Len(COMMAND_TABLE) :
        /\ i < j
        /\ EntryMatches(i, query)
        /\ EntryMatches(j, query)
        /\ COMMAND_TABLE[i].handler # COMMAND_TABLE[j].handler
        /\ invoked[1][1] = COMMAND_TABLE[i].handler

\* word occurs in s as a whitespace-delimited token.
HasWord(word, s) ==
  \E i \in 0..(Len(s) - Len(word)) :
     /\ SubSeq(s, i + 1, i + Len(word)) = word
     /\ (i = 0 \/ s[i] = " ")
     /\ (i + Len(word) = Len(s) \/ s[i + Len(word) + 1] = " ")

\* C10: cmd_shutdown and cmd_restart call the privileged action only when
\* the answer holds the confirmation word "yes" as a word of its own.
C10_PrivilegedOnlyOnConfirmationWord ==
  (Dispatched /\ Len(invoked) = 1
     /\ invoked[1][1] \in {"cmd_shutdown", "cmd_restart"}
     /\ effects # <<>>) =>
     (Len(heard) = 1 /\ HasWord(YES, heard[1]))

(***************************************************************************)
(* Properties of the Task Store.                                            *)
(***************************************************************************)

\* The step is a dispatch of cmd_complete_todo that no exception left and in
\* which the user answered the question with a text holding a number.
CompleteAnswered ==
  /\ pc = "dispatch"
  /\ Len(invoked') = 1
  /\ invoked'[1][1] = "cmd_complete_todo"
  /\ failed' = <<>>
  /\ Len(heard') = 1
  /\ re_search_digits(heard'[1]) # <<>>

\* The number in that answer.
AnsweredNumber == int(re_search_digits(heard'[1]))

\* The position in todos of the i-th pending task.
PendingPos(todos, i) ==
  CHOOSE k \in 1..Len(todos) :
     /\ ~todos[k].done
     /\ Cardinality({j \in 1..k : ~todos[j].done}) = i

RemoveAt(s, i) == SubSeq(s, 1, i - 1) \o SubSeq(s, i + 1, Len(s))

\* C4: answered with i, 1 <= i <= number of pending tasks, complete-task
\* marks as done the i-th pending task and no other, and pending() loses
\* its i-th element.
C4_CompletesIthPending ==
  [][(CompleteAnswered /\ 1 <= AnsweredNumber
        /\ AnsweredNumber <= Len(Pending(todo_file))) =>
       /\ todo_file' =
            [todo_file EXCEPT ![PendingPos(todo_file, AnsweredNumber)].done = TRUE]
       /\ Pending(todo_file') = RemoveAt(Pending(todo_file), AnsweredNumber)]_vars

\* C5: answered with 0 or with a number above the number of pending tasks,
\* complete-task reports that it cannot identify the task and leaves
\* todo.json as it is.
C5_OutOfRangeLeavesStore ==
  [][(CompleteAnswered
        /\ (AnsweredNumber = 0 \/ AnsweredNumber > Len(Pending(todo_file)))) =>
       /\ todo_file' = todo_file
       /\ Last(spoken') = <<"I couldn't identify that task number.">>]_vars


(***************************************************************************)
(* Properties of the note log.                                              *)
(***************************************************************************)

\* dispatch called cmd_read_notes for the current query and it returned.
ReadNotesDone ==
  /\ Dispatched
  /\ invoked = << <<"cmd_read_notes", query>> >>
  /\ failed = <<>>

\* C11: once notes.txt holds five lines or more, cmd_read_notes reports the
\* number of notes and then the last five lines written, oldest first,
\* numbered 1 to 5.
C11_ReadsLastFiveInOrder ==
  (ReadNotesDone /\ Len(notes_file) >= 5) =>
     /\ Len(spoken) = 6
     /\ spoken[1] = <<"You have note(s)", Len(notes_file)>>
     /\ \A i \in 1..5 :
           spoken[i + 1] = <<"Note", i, notes_file[Len(notes_file) - 5 + i]>>

\* The notes of a log of six lines, not all alike, were read out.
C11_Witness ==
  /\ ReadNotesDone
  /\ Len(notes_file) = 6
  /\ notes_file[1].text # notes_file[6].text
  /\ notes_file[2].text # notes_file[3].text

\* C12: every step keeps the lines of notes.txt as a prefix of the new
\* notes.txt; the step that adds to it is a cmd_write_note that returned,
\* and a cmd_write_note that saved a note adds one line.
C12_NoteLogAppendOnly ==
  [][/\ Len(notes_file') >= Len(notes_file)
     /\ SubSeq(notes_file', 1, Len(notes_file)) = notes_file
     /\ (notes_file' # notes_file) =>
           /\ Len(notes_file') = Len(notes_file) + 1
           /\ invoked' = << <<"cmd_write_note", query>> >>
           /\ failed' = <<>>
     /\ (pc = "dispatch" /\ spoken' # <<>> /\ Last(spoken') = <<"Note saved!">>) =>
           Len(notes_file') = Len(notes_file) + 1]_vars

\* A note was saved after a note of another text.
C12_Witness ==
  /\ Dispatched
  /\ spoken # <<>>
  /\ Last(spoken) = <<"Note saved!">>
  /\ Len(notes_file) >= 2
  /\ notes_file[Len(notes_file)].text # notes_file[Len(notes_file) - 1].text


\* C13: every step keeps every task of todo.json at its position, with its
\* description and its date, and keeps done every task that is done; tasks
\* are only added after the last one.
C13_TasksKeptInPlace ==
  [][/\ Len(todo_file') >= Len(todo_file)
     /\ \A i \in 1..Len(todo_file) :
           /\ todo_file'[i].task = todo_file[i].task
           /\ todo_file'[i].added = todo_file[i].added
           /\ todo_file[i].done => todo_file'[i].done]_vars

\* cmd_complete_todo marked a task of a list that holds a done task before
\* a pending one.
C13_Witness ==
  /\ Dispatched
  /\ invoked = << <<"cmd_complete_todo", query>> >>
  /\ spoken # <<>>
  /\ Last(spoken)[1] = "Great job! Marked as done:"
  /\ Len(todo_file) = MaxTasks
  /\ todo_file[1].done
  /\ ~todo_file[2].done

\* The description typed after "add task ".
AddTaskPrefix == <<"a","d","d"," ","t","a","s","k"," ">>

Description(q) == SubSeq(q, Len(AddTaskPrefix) + 1, Len(q))

\* C14: for "add task P", P not empty and with no Exit Keyword, a dispatch
\* that no exception leaves adds to the end of todo.json one pending task
\* of description P, keeps the other tasks, and says that P was added.
C14_AddsTaskAsTyped ==
  [][(/\ pc = "dispatch"
      /\ StartsWith(AddTaskPrefix, query)
      /\ Description(query) # <<>>
      /\ ~HasExitKeyword(query)
      /\ failed' = <<>>) =>
       /\ Len(todo_file') = Len(todo_file) + 1
       /\ SubSeq(todo_file', 1, Len(todo_file)) = todo_file
       /\ Last(todo_file').task = Description(query)
       /\ ~Last(todo_file').done
       /\ spoken' = << <<"Added to your to-do list:", Description(query)>> >>]_vars


(***************************************************************************)
(* Properties of the Configuration.                                         *)
(***************************************************************************)

\* The step is the call of load_config at start-up, and it returned.
LoadReturns == pc = "import" /\ pc' = "start"

\* The keys of the members of a document's text.
KeysOf(text) == {text[i][1] : i \in 2..(Len(text) - 1)}

\* C15: when load_config returns, CONFIG holds every key of DEFAULT_CONFIG;
\* each member of the document found holds its value in CONFIG and each key
\* the document lacks holds its default; when no document was found, CONFIG
\* is DEFAULT_CONFIG and the file now holds the defaults, member by member.
C15_LoadBackfillsDefaults ==
  [][LoadReturns =>
       /\ \A n \in 1..Len(KEYS) : KEYS[n] \in DOMAIN CONFIG'
       /\ IF config_exists
          THEN /\ \A i \in 2..(Len(config_file) - 1) :
                     CONFIG'[config_file[i][1]] = config_file[i][2]
               /\ \A n \in 1..Len(KEYS) :
                     KEYS[n] \notin KeysOf(config_file) =>
                        CONFIG'[KEYS[n]] = DEFAULT_CONFIG[KEYS[n]]
          ELSE /\ CONFIG' = DEFAULT_CONFIG
               /\ config_exists'
               /\ Len(config_file') = Len(KEYS) + 2
               /\ \A n \in 1..Len(KEYS) :
                     config_file'[n + 1] = <<KEYS[n], DEFAULT_CONFIG[KEYS[n]]>>]_vars

\* load_config has returned for a document that holds an edited name and
\* lacks keys of DEFAULT_CONFIG.
C15_Witness ==
  /\ pc = "start"
  /\ CONFIG.assistant_name = EDITED_CONFIG.assistant_name
  /\ Len(config_file) < Len(KEYS) + 2
  /\ CONFIG.phrase_time_limit = DEFAULT_CONFIG.phrase_time_limit

\* C16: after every dispatched input, load_config on data/config.json as it
\* is returns the CONFIG in memory.
C16_PersistedIsInMemory ==
  Dispatched =>
     /\ \E r \in load_config(config_exists, config_file) : ~r.exc
     /\ \A r \in load_config(config_exists, config_file) :
           ~r.exc => r.val = CONFIG

\* C17: once load_config has returned CONFIG, writing CONFIG to the file and
\* calling load_config again returns CONFIG, and the document written from
\* that result is the one written from CONFIG.
C17_RoundTripIdempotent ==
  (pc \notin {"import", "failed"}) =>
     \A r \in load_config(TRUE, json_dump(CONFIG)) :
        ~r.exc => /\ r.val = CONFIG
                  /\ json_dump(r.val) = json_dump(CONFIG)

\* load_config has returned for a document that holds an edited name and is
\* not the document that CONFIG is written as.
C17_Witness ==
  /\ pc = "start"
  /\ CONFIG.assistant_name = EDITED_CONFIG.assistant_name
  /\ CONFIG.user_name = DEFAULT_CONFIG.user_name
  /\ config_file # json_dump(CONFIG)

\* C18: with a malformed document in data/config.json the call of
\* load_config at start-up ends the program: the file is left as it is, no
\* input is read, nothing is dispatched or spoken, and nothing follows.
C18_MalformedIsFatal ==
  [][/\ (pc = "import" /\ config_exists /\ config_file \in MalformedDocuments) =>
           /\ pc' = "failed"
           /\ UNCHANGED <<config_exists, config_file, notes_file, todo_file,
                          query, event, ret, spoken, effects, heard, invoked,
                          failed>>
     /\ pc # "failed"]_vars

\* The program ended at start-up on a document cut inside its last member.
C18_Witness ==
  /\ pc = "failed"
  /\ config_exists
  /\ config_file \in MalformedDocuments
  /\ Len(config_file) >= 2
  /\ Len(Last(config_file)) = 1
  /\ query = <<>>


(***************************************************************************)
(* Properties of the catalog and of the help text.                          *)
(***************************************************************************)

\* The categories of HELP_TEXT under which q, lower-cased, is an example.
CategoriesOf(q) ==
  {HELP_TEXT[n].category :
     n \in {m \in 1..Len(HELP_TEXT) :
              \E e \in 1..Len(HELP_TEXT[m].examples) :
                 lower(HELP_TEXT[m].examples[e]) = q}}

\* C19: dispatching an example of HELP_TEXT, lower-cased, ends the session
\* with no handler invoked when the example is listed under Exit, and else
\* invokes one handler, of the category the example is listed under.
C19_HelpExamplesRecognised ==
  Dispatched =>
     \A c \in CategoriesOf(query) :
        IF c = "Exit"
        THEN ret = "False" /\ invoked = <<>>
        ELSE /\ ret = "True"
             /\ Len(invoked) = 1
             /\ invoked[1][1] \in CATEGORY_HANDLERS[c]
             /\ invoked[1][2] = query

\* C20: dispatching a keyword phrase of an entry of COMMAND_TABLE, alone,
\* invokes the handler of that entry and no other.
C20_NoDeadPhrase ==
  Dispatched =>
     \A i \in 1..Len(COMMAND_TABLE) :
        (\E k \in 1..Len(COMMAND_TABLE[i].keywords) :
            COMMAND_TABLE[i].keywords[k] = query) =>
           invoked = << <<COMMAND_TABLE[i].handler, query>> >>


(***************************************************************************)
(* Properties of the handlers that take a payload.                          *)
(***************************************************************************)

PayloadHandlers ==
  {"cmd_search_google", "cmd_search_youtube", "cmd_wikipedia",
   "cmd_write_note", "cmd_add_todo"}

\* What is left of the query q once handler h has removed its trigger words.
PayloadOf(h, q) ==
  strip(re_sub(CASE h = "cmd_search_google" -> RE_search_google
                 [] h = "cmd_search_youtube" -> RE_search_youtube
                 [] h = "cmd_wikipedia" -> RE_wikipedia
                 [] h = "cmd_write_note" -> RE_write_note
                 [] h = "cmd_add_todo" -> RE_add_todo, q))

\* The question handler h asks for its payload.
QuestionOf(h) ==
  CASE h = "cmd_search_google" -> <<"What would you like me to search for?">>
    [] h = "cmd_search_youtube" -> <<"What would you like to search on YouTube?">>
    [] h = "cmd_wikipedia" -> <<"What topic would you like me to look up on Wikipedia?">>
    [] h = "cmd_write_note" -> <<"What would you like to note down?">>
    [] h = "cmd_add_todo" -> <<"What task would you like to add?">>

\* The step is a dispatch that invokes one handler, a payload handler, for
\* a query that holds nothing but its trigger words.
AsksForPayload ==
  /\ pc = "dispatch"
  /\ Len(invoked') = 1
  /\ invoked'[1][1] \in PayloadHandlers
  /\ PayloadOf(invoked'[1][1], query) = <<>>

\* What the handler does with the payload a: the search opened, the lookup
\* made, the line or the task appended.
UsesPayload(h, a) ==
  CASE h = "cmd_search_google" ->
         /\ effects' = << <<"webbrowser.open google search", replace_space_plus(a)>> >>
         /\ UNCHANGED stores
    [] h = "cmd_search_youtube" ->
         /\ effects' = << <<"webbrowser.open youtube search", replace_space_plus(a)>> >>
         /\ UNCHANGED stores
    [] h = "cmd_wikipedia" ->
         /\ effects' = << <<"wikipedia.summary", a>> >>
         /\ UNCHANGED stores
    [] h = "cmd_write_note" ->
         /\ effects' = <<>>
         /\ Len(notes_file') = Len(notes_file) + 1
         /\ SubSeq(notes_file', 1, Len(notes_file)) = notes_file
         /\ Last(notes_file').text = a
         /\ UNCHANGED <<CONFIG, config_file, todo_file>>
    [] h = "cmd_add_todo" ->
         /\ effects' = <<>>
         /\ Len(todo_file') = Len(todo_file) + 1
         /\ SubSeq(todo_file', 1, Len(todo_file)) = todo_file
         /\ Last(todo_file').task = a
         /\ ~Last(todo_file').done
         /\ UNCHANGED <<CONFIG, config_file, notes_file>>

\* C21: a payload handler whose query holds no payload asks its question
\* once and listens once; the answer, when not empty, is the payload of the
\* search, the lookup, the note or the task; with an empty answer (or when
\* listen raises) no store changes and no action port is called.
C21_AsksOnceAndUsesAnswer ==
  [][AsksForPayload =>
       LET h == invoked'[1][1]
       IN  /\ Cardinality({i \in 1..Len(spoken') : spoken'[i] = QuestionOf(h)}) = 1
           /\ Len(heard') <= 1
           /\ (heard' = <<>> \/ heard' = << <<>> >>) =>
                 /\ effects' = <<>>
                 /\ UNCHANGED stores
           /\ (Len(heard') = 1 /\ heard'[1] # <<>> /\ failed' = <<>>) =>
                 UsesPayload(h, heard'[1])]_vars

\* cmd_write_note asked for the note and saved the answer.
C21_Witness ==
  /\ Dispatched
  /\ Len(invoked) = 1
  /\ invoked[1][1] = "cmd_write_note"
  /\ PayloadOf("cmd_write_note", query) = <<>>
  /\ spoken = << QuestionOf("cmd_write_note"), <<"Note saved!">> >>
  /\ Len(heard) = 1
  /\ heard[1] # <<>>
  /\ Len(notes_file) = 1
  /\ notes_file[1].text = heard[1]

=============================================================================
